---------------------------- MODULE Spec2Model ----------------------------
(***************************************************************************)
(* Model of meniscus. Three parts that share no state:                     *)
(*  - the workers of the elasticsearch sink (Spec, SpecLive, SpecShort,    *)
(*    SpecConfigured, SpecQuiet);                                          *)
(*  - the task put_message that publishes to the sink's queue (SpecPut);   *)
(*  - the watchlist flow of the coordinator,                               *)
(*    src/meniscus/api/coordinator/watchlist_flow.py (SpecWatch,           *)
(*    SpecSolo).                                                           *)
(* Each specification moves the variables of its part and leaves the       *)
(* others as Init made them.                                               *)
(*                                                                         *)
(* The elasticsearch sink                                                  *)
(* (src/meniscus/sinks/elasticsearch/sink.py): the durable queue           *)
(* 'elasticsearch', the pool of flush_to_es workers started by             *)
(* ElasticSearchStreamBulker.start, each pulling messages through          *)
(* get_queue_stream into elasticsearch.helpers.streaming_bulk and          *)
(* acknowledging them from its ack_list.                                   *)
(*                                                                         *)
(* Library behaviour the code relies on, as its call sites use it:         *)
(*  - kombu SimpleQueue.get(block=True, timeout=t) returns a message or    *)
(*    raises Empty when none arrives within t seconds;                     *)
(*  - a delivered message stays unacknowledged on the session that pulled  *)
(*    it until it is acked or that session is closed, and the broker       *)
(*    requeues the unacknowledged messages of a closed session;            *)
(*  - streaming_bulk draws chunk_size actions from the iterable            *)
(*    (islice), returns if it got none, calls client.bulk once for the     *)
(*    chunk and yields one (ok, item) pair per action, in order; a failed  *)
(*    item is yielded with ok false (raise_on_error is not set, and        *)
(*    flush_to_es tests response[0]).                                      *)
(*                                                                         *)
(* A message is a token of Msgs; its payload, the action built from it,    *)
(* is identified with it. The variables reported, pulled, ackLog,          *)
(* lastCall, lastErr and restarted record what has happened and are read   *)
(* by no action's guard.                                                   *)
(***************************************************************************)
EXTENDS Integers, Sequences, FiniteSets, TLC

\* ------------------------------------------------------------- bounds
NumWorkers == 2    \* concurrency of the pool
MaxMsgs == 3       \* distinct message tokens the publishers may use
MaxTasks == 2      \* put_message tasks the callers submit
MaxBulkSize == 3   \* largest bulk_size a caller gives the constructor
MaxWorkerIds == 2  \* workers the coordinator has registered
MaxCallers == 2    \* requests the coordinator serves at a time
MaxCalls == 7      \* calls of process_watchlist_item in a run
MaxTicks == 2      \* how many times the clock is advanced
TickSeconds == 40  \* by how much

\* ------------------------------------------------ program constants
BULK_SIZE == 2     \* es_handler.bulk_size, the chunk_size of streaming_bulk
TTL == 30          \* es_handler.ttl, the default ttl of _queue_index_request
MAX_RETRIES == 3   \* max_retries of a task declared with a bare @celery.task
FAILURE_TOLERANCE_SECONDS == 60  \* watchlist_settings, the default
WATCHLIST_COUNT_THRESHOLD == 5   \* watchlist_settings, the default
NewWatchCount == 1 \* watch_count of WatchlistItem(worker_id)

Workers == 1..NumWorkers
Msgs == 1..MaxMsgs
NoWorker == 0
NoCall == -1

VARIABLES
  sup,        \* the process running ElasticSearchStreamBulker.start
  pc,         \* pc[w]: where worker w is in flush_to_es
  ready,      \* messages in the durable queue, ready for delivery
  held,       \* held[m]: the worker on whose session m is delivered, unacked
  acked,      \* messages acknowledged (removed from the durable queue)
  conn,       \* conn[w]: the Connection of w's get_queue_stream is open
  ack_list,   \* ack_list[w]: the list of line 117
  chunk,      \* chunk[w]: actions streaming_bulk has drawn for its next call
  sent,       \* sent[w]: actions of the bulk call whose results are walked
  resp,       \* resp[w]: the per-action ok flags of that call's response
  pos,        \* pos[w]: how many of them the for loop has consumed
  reported,   \* reported[m]: the backend's word on m's current delivery
  pulled,     \* pulled[w]: messages pulled on w's current session, in order
  ackLog,     \* ackLog[w]: msg.ack() calls of w's current session, in order
  lastCall,   \* lastCall[w]: size of the bulk request w's stream made last
  lastErr,    \* lastErr[w]: the exception line 131 is logging for w
  restarted,  \* restarted[w]: w's loop has been through its except clause
  bulk_size,  \* self.bulk_size of the ElasticSearchStreamBulker
  st,         \* st[t]: where the put_message task t is
  arg,        \* arg[t]: the message task t was submitted with
  retries,    \* retries[t]: retries of t that put_message.retry has scheduled
  es_queue,   \* the actions put_message has published, in order
  uuids,      \* how many uuid4 values have been drawn
  now,        \* datetime.now(), in seconds
  watchlist,  \* the documents of the 'watchlist' collection
  oids,       \* how many _id values db.put has given out
  status,     \* status[i]: the status of worker i in the 'worker' collection
  bcast,      \* bcast[i]: calls of broadcast_config_change for worker i
  reports,    \* reports[i]: calls of process_watchlist_item(db, i) returned
  wpc,        \* wpc[c]: where request c is in process_watchlist_item
  wid,        \* wid[c]: its worker_id argument
  watch_dict, \* watch_dict[c]: what its find_one returned
  pre         \* pre[c]: the collections as they were when its call began

sinkVars == <<sup, pc, ready, held, acked, conn, ack_list, chunk, sent, resp,
              pos, reported, pulled, ackLog, lastCall, lastErr, restarted>>

putVars == <<st, arg, retries, es_queue, uuids>>

dbVars == <<now, watchlist, oids, status, bcast, reports>>

callVars == <<wpc, wid, watch_dict, pre>>

\* What the workers of the sink leave alone.
notSink == <<bulk_size, putVars, dbVars, callVars>>

\* What put_message leaves alone.
notPut == <<sinkVars, bulk_size, dbVars, callVars>>

\* What the watchlist flow leaves alone.
notWatch == <<sinkVars, bulk_size, putVars>>

vars == <<sinkVars, bulk_size, putVars, dbVars, callVars>>

Tasks == 1..MaxTasks

\* A message as put_message reads it: the keys it has of
\* message['meniscus']['tenant'] and
\* message['meniscus']['correlation']['pattern'], and their values.
Keys == {"tenant", "pattern"}
Tenants == {"t1", "t2"}
Patterns == {"p1"}
Docs ==
  UNION {{d \in [K -> Tenants \cup Patterns] :
            /\ "tenant" \in K => d["tenant"] \in Tenants
            /\ "pattern" \in K => d["pattern"] \in Patterns} : K \in SUBSET Keys}
EmptyDoc == [k \in {} |-> "t1"]

WorkerIds == 1..MaxWorkerIds
Callers == 1..MaxCallers

\* find_one returning None.
NoItem == [id |-> 0, worker_id |-> 0, watch_count |-> 0, last_changed |-> 0]

\* No call under way, nothing remembered.
NoSnapshot == [watchlist |-> {}, status |-> <<>>, bcast |-> <<>>]

\* The state once ElasticSearchStreamBulker(bulk_size=k) is constructed.
InitWith(k) ==
  /\ sup = "created"
  /\ pc = [w \in Workers |-> "idle"]
  /\ ready = {}
  /\ held = [m \in Msgs |-> NoWorker]
  /\ acked = {}
  /\ conn = [w \in Workers |-> FALSE]
  /\ ack_list = [w \in Workers |-> <<>>]
  /\ chunk = [w \in Workers |-> <<>>]
  /\ sent = [w \in Workers |-> <<>>]
  /\ resp = [w \in Workers |-> <<>>]
  /\ pos = [w \in Workers |-> 0]
  /\ reported = [m \in Msgs |-> "none"]
  /\ pulled = [w \in Workers |-> <<>>]
  /\ ackLog = [w \in Workers |-> <<>>]
  /\ lastCall = [w \in Workers |-> NoCall]
  /\ lastErr = [w \in Workers |-> "none"]
  /\ restarted = [w \in Workers |-> FALSE]
  /\ bulk_size = k
  /\ st = [t \in Tasks |-> "idle"]
  /\ arg = [t \in Tasks |-> EmptyDoc]
  /\ retries = [t \in Tasks |-> 0]
  /\ es_queue = <<>>
  /\ uuids = 0
  /\ now = 0
  /\ watchlist = {}
  /\ oids = 0
  /\ status = [i \in WorkerIds |-> "online"]
  /\ bcast = [i \in WorkerIds |-> 0]
  /\ reports = [i \in WorkerIds |-> 0]
  /\ wpc = [c \in Callers |-> "idle"]
  /\ wid = [c \in Callers |-> 0]
  /\ watch_dict = [c \in Callers |-> NoItem]
  /\ pre = [c \in Callers |-> NoSnapshot]

\* The constructor called without bulk_size: the default of line 139.
Init == InitWith(BULK_SIZE)

\* The constructor called with a bulk_size of the caller's.
InitConfigured == \E k \in 1..MaxBulkSize : InitWith(k)

\* ---------------------------------------------------------- publisher

Unpublished(m) == m \notin ready /\ held[m] = NoWorker /\ m \notin acked

\* _queue_index_request: the action built from message m is published to
\* the durable queue.
Publish(m) ==
  /\ Unpublished(m)
  /\ ready' = ready \cup {m}
  /\ reported' = [reported EXCEPT ![m] = "none"]
  /\ UNCHANGED <<sup, pc, held, acked, conn, ack_list, chunk, sent, resp, pos,
                 pulled, ackLog, lastCall, lastErr, restarted,
                 notSink>>

\* --------------------------------------------------------- supervisor

\* ElasticSearchStreamBulker.start: Pool(concurrency), then pool.map of
\* flush_to_es over one bulk_timeout per worker; the caller blocks in map.
Start ==
  /\ sup = "created"
  /\ sup' = "mapping"
  /\ pc' = [w \in Workers |-> "start"]
  /\ UNCHANGED <<ready, held, acked, conn, ack_list, chunk, sent, resp, pos,
                 reported, pulled, ackLog, lastCall, lastErr, restarted,
                 notSink>>

\* A termination signal reaches the process running start. signal_handler
\* is defined inside start but never installed with signal.signal, so the
\* signal has its default disposition: the process ends. Nothing is sent
\* to the workers, and flush_to_es looks at nothing but its queue.
Signal ==
  /\ sup = "mapping"
  /\ sup' = "killed"
  /\ UNCHANGED <<pc, ready, held, acked, conn, ack_list, chunk, sent, resp, pos,
                 reported, pulled, ackLog, lastCall, lastErr, restarted,
                 notSink>>

\* ------------------------------------------------------------- worker

\* Mutant of HeldBy: the workers share one broker session, so closing it
\* lets go of every delivered message, whoever pulled it.
HeldByAnyone(w) == {m \in Msgs : held[m] # NoWorker}

\* The messages delivered and unacknowledged on w's own session.
HeldBy(w) == {m \in Msgs : held[m] = w}

RemoveAt(s, i) == [k \in 1..(Len(s) - 1) |-> IF k < i THEN s[k] ELSE s[k + 1]]

\* Mutant of ExceptTarget: no try/except round the cycle, the exception
\* leaves flush_to_es and the worker's task is over.
ExceptTargetRaise == "dead"

\* Where flush_to_es goes after `except Exception` has logged: the outer
\* `while True` starts the next cycle.
ExceptTarget == "start"

\* The exception path of flush_to_es for worker w: the exception unwinds
\* streaming_bulk and get_queue_stream (the `with Connection` block releases
\* the connection, so the broker requeues what the session held unacked),
\* line 131 logs it, and the loop goes round.
Handle(w, err) ==
  /\ lastErr' = [lastErr EXCEPT ![w] = err]
  /\ restarted' = [restarted EXCEPT ![w] = TRUE]
  /\ pc' = [pc EXCEPT ![w] = ExceptTarget]
  /\ conn' = [conn EXCEPT ![w] = FALSE]
  /\ ready' = ready \cup HeldBy(w)
  /\ held' = [m \in Msgs |-> IF held[m] = w THEN NoWorker ELSE held[m]]
  /\ chunk' = [chunk EXCEPT ![w] = <<>>]
  /\ sent' = [sent EXCEPT ![w] = <<>>]
  /\ resp' = [resp EXCEPT ![w] = <<>>]
  /\ pos' = [pos EXCEPT ![w] = 0]
  /\ pulled' = [pulled EXCEPT ![w] = <<>>]
  /\ ackLog' = [ackLog EXCEPT ![w] = <<>>]
  /\ lastCall' = [lastCall EXCEPT ![w] = NoCall]
  /\ reported' = [m \in Msgs |-> IF held[m] = w THEN "none" ELSE reported[m]]
  /\ UNCHANGED <<sup, acked, notSink>>

\* Mutant of NewAckList: the list is made once, outside the loop, and the
\* entries of the cycle that failed stay in it.
KeepAckList(old) == old

\* ack_list = list() of line 117.
NewAckList(old) == <<>>

\* Lines 116-120 without an exception: the backend connection is taken, a
\* new ack_list is made, and the two generators are created (neither has
\* run yet).
StartCycle(w) ==
  /\ pc[w] = "start"
  /\ pc' = [pc EXCEPT ![w] = "connect"]
  /\ ack_list' = [ack_list EXCEPT ![w] = NewAckList(ack_list[w])]
  /\ lastErr' = [lastErr EXCEPT ![w] = "none"]
  /\ UNCHANGED <<sup, ready, held, acked, conn, chunk, sent, resp, pos,
                 reported, pulled, ackLog, lastCall, restarted,
                 notSink>>

\* es_handler.connection (line 116) raises.
EsConnError(w) ==
  /\ pc[w] = "start"
  /\ Handle(w, "error")
  /\ UNCHANGED ack_list

\* First next() on get_queue_stream: Connection(broker_url) is entered and
\* the SimpleQueue is opened (lines 92-93).
OpenStream(w) ==
  /\ pc[w] = "connect"
  /\ conn' = [conn EXCEPT ![w] = TRUE]
  /\ pc' = [pc EXCEPT ![w] = "get"]
  /\ UNCHANGED <<sup, ready, held, acked, ack_list, chunk, sent, resp, pos,
                 reported, pulled, ackLog, lastCall, lastErr, restarted,
                 notSink>>

\* The broker cannot be reached, or the connection is lost in get.
BrokerError(w) ==
  /\ pc[w] \in {"connect", "get"}
  /\ Handle(w, "error")
  /\ UNCHANGED ack_list

\* islice(actions, chunk_size) stops drawing once it has chunk_size actions.
ChunkClosed(c) == Len(c) = BULK_SIZE

\* simple_queue.get returns message m (line 96): it is appended to ack_list
\* (line 98) and its payload is yielded (line 99) into the chunk that
\* streaming_bulk is drawing.
Pull(w, m) ==
  /\ pc[w] = "get"
  /\ m \in ready
  /\ ready' = ready \ {m}
  /\ held' = [held EXCEPT ![m] = w]
  /\ reported' = [reported EXCEPT ![m] = "none"]
  /\ ack_list' = [ack_list EXCEPT ![w] = Append(@, m)]
  /\ pulled' = [pulled EXCEPT ![w] = Append(@, m)]
  /\ chunk' = [chunk EXCEPT ![w] = Append(@, m)]
  /\ pc' = [pc EXCEPT ![w] = IF ChunkClosed(chunk'[w]) THEN "bulk" ELSE "get"]
  /\ UNCHANGED <<sup, acked, conn, sent, resp, pos, ackLog, lastCall, lastErr,
                 restarted, notSink>>

\* Mutant of PullTimeout: the timeout ends the chunk and whatever has been
\* drawn so far, nothing included, is sent to the backend.
PullTimeoutFlush(w) ==
  /\ pc[w] = "get"
  /\ ready = {}
  /\ \E r \in [1..Len(chunk[w]) -> BOOLEAN] :
       /\ pc' = [pc EXCEPT ![w] = "walk"]
       /\ lastCall' = [lastCall EXCEPT ![w] = Len(chunk[w])]
       /\ sent' = [sent EXCEPT ![w] = chunk[w]]
       /\ resp' = [resp EXCEPT ![w] = r]
       /\ pos' = [pos EXCEPT ![w] = 0]
       /\ chunk' = [chunk EXCEPT ![w] = <<>>]
  /\ UNCHANGED <<sup, ready, held, acked, conn, ack_list, reported, pulled,
                 ackLog, lastErr, restarted, notSink>>

\* simple_queue.get(block=True, timeout=bulk_timeout) finds no message
\* within the timeout and raises Empty (line 96). Nothing in
\* get_queue_stream or streaming_bulk catches it: it reaches the
\* `except Exception` of flush_to_es like any other exception.
PullTimeout(w) ==
  /\ pc[w] = "get"
  /\ ready = {}
  /\ Handle(w, "Empty")
  /\ UNCHANGED ack_list

\* streaming_bulk with its chunk drawn: `if not bulk_actions: return`, else
\* client.bulk(bulk_actions) answers with one item per action, in order;
\* r[k] is whether item k's status is a success.
BulkWrite(w) ==
  /\ pc[w] = "bulk"
  /\ IF chunk[w] = <<>>
       THEN /\ pc' = [pc EXCEPT ![w] = "spin"]
            /\ UNCHANGED <<chunk, sent, resp, pos, reported, lastCall>>
       ELSE \E r \in [1..Len(chunk[w]) -> BOOLEAN] :
            /\ pc' = [pc EXCEPT ![w] = "walk"]
            /\ lastCall' = [lastCall EXCEPT ![w] = Len(chunk[w])]
            /\ sent' = [sent EXCEPT ![w] = chunk[w]]
            /\ resp' = [resp EXCEPT ![w] = r]
            /\ pos' = [pos EXCEPT ![w] = 0]
            /\ chunk' = [chunk EXCEPT ![w] = <<>>]
            /\ reported' = [m \in Msgs |->
                 IF \E k \in 1..Len(chunk[w]) : chunk[w][k] = m
                   THEN IF r[CHOOSE k \in 1..Len(chunk[w]) : chunk[w][k] = m]
                          THEN "ok" ELSE "fail"
                   ELSE reported[m]]
  /\ UNCHANGED <<sup, ready, held, acked, conn, ack_list, pulled, ackLog,
                 lastErr, restarted, notSink>>

\* client.bulk raises (transport error, backend unreachable).
BulkError(w) ==
  /\ pc[w] = "bulk"
  /\ Handle(w, "error")
  /\ UNCHANGED ack_list

\* Mutant of PopIndex: ack_list.pop(), which takes the newest entry.
PopLast(l) == Len(l)

\* ack_list.pop(0) of line 124: the index popped.
PopIndex(l) == 1

\* Mutant of MsgOk: the result is not looked at, every entry is acked.
AlwaysOk(r) == TRUE

\* msg_ok = response[0]; if msg_ok: (lines 125-127).
MsgOk(r) == r

\* Mutant of AckStep: the walk of a chunk's results stops at the first
\* failure, and the entries after it are popped unacknowledged.
AckStepStopAtFailure(w) ==
  /\ pc[w] = "walk"
  /\ pos[w] < Len(resp[w])
  /\ ack_list[w] # <<>>
  /\ LET msg == Head(ack_list[w])
         ok == resp[w][pos[w] + 1]
     IN IF ok
          THEN /\ ack_list' = [ack_list EXCEPT ![w] = Tail(@)]
               /\ pos' = [pos EXCEPT ![w] = @ + 1]
               /\ acked' = acked \cup {msg}
               /\ held' = [held EXCEPT ![msg] = NoWorker]
               /\ ackLog' = [ackLog EXCEPT ![w] = Append(@, msg)]
          ELSE /\ ack_list' = [ack_list EXCEPT ![w] =
                                SubSeq(@, Len(resp[w]) - pos[w] + 1, Len(@))]
               /\ pos' = [pos EXCEPT ![w] = Len(resp[w])]
               /\ UNCHANGED <<acked, held, ackLog>>
  /\ pc' = [pc EXCEPT ![w] = IF pos'[w] = Len(resp[w]) THEN "get" ELSE "walk"]
  /\ UNCHANGED <<sup, ready, conn, chunk, sent, resp, reported, pulled,
                 lastCall, lastErr, restarted, notSink>>

\* One iteration of `for response in bulker` (lines 123-128) that raises
\* nothing: the next result is taken, an entry is popped off ack_list and
\* acknowledged if the result is a success. pop on an empty list raises
\* IndexError, which takes the exception path.
AckStep(w) ==
  /\ pc[w] = "walk"
  /\ pos[w] < Len(resp[w])
  /\ IF ack_list[w] = <<>>
       THEN Handle(w, "error") /\ UNCHANGED ack_list
       ELSE LET i == PopIndex(ack_list[w])
                msg == ack_list[w][i]
                ok == MsgOk(resp[w][pos[w] + 1])
            IN /\ ack_list' = [ack_list EXCEPT ![w] = RemoveAt(@, i)]
               /\ pos' = [pos EXCEPT ![w] = @ + 1]
               /\ pc' = [pc EXCEPT ![w] =
                           IF pos'[w] = Len(resp[w]) THEN "get" ELSE "walk"]
               /\ IF ok
                    THEN /\ acked' = acked \cup {msg}
                         /\ held' = [held EXCEPT ![msg] = NoWorker]
                         /\ ready' = ready \ {msg}
                         /\ ackLog' = [ackLog EXCEPT ![w] = Append(@, msg)]
                    ELSE UNCHANGED <<acked, held, ready, ackLog>>
               /\ UNCHANGED <<sup, conn, chunk, sent, resp, reported, pulled,
                              lastCall, lastErr, restarted,
                              notSink>>

\* msg.ack() of line 128 raises: the entry is popped already, the message
\* is not acknowledged.
AckError(w) ==
  /\ pc[w] = "walk"
  /\ pos[w] < Len(resp[w])
  /\ ack_list[w] # <<>>
  /\ MsgOk(resp[w][pos[w] + 1])
  /\ ack_list' = [ack_list EXCEPT ![w] = RemoveAt(@, PopIndex(@))]
  /\ Handle(w, "error")

WorkerStep(w) ==
  \/ StartCycle(w)
  \/ EsConnError(w)
  \/ OpenStream(w)
  \/ BrokerError(w)
  \/ \E m \in Msgs : Pull(w, m)
  \/ PullTimeout(w)
  \/ BulkWrite(w)
  \/ BulkError(w)
  \/ AckStep(w)
  \/ AckError(w)

Next ==
  \/ \E m \in Msgs : Publish(m)
  \/ Start
  \/ Signal
  \/ \E w \in Workers : WorkerStep(w)

Spec == Init /\ [][Next]_vars

\* The same program, started from a bulker constructed with any bulk_size.
SpecConfigured == InitConfigured /\ [][Next]_vars

\* The publishers never run out of messages: a token whose message is
\* acknowledged and gone from the queue stands for the next message
\* published (a new action, a new uuid), and what the logs kept of the old
\* one is dropped.
PublishAgain(m) ==
  /\ m \in acked
  /\ acked' = acked \ {m}
  /\ ready' = ready \cup {m}
  /\ reported' = [reported EXCEPT ![m] = "none"]
  /\ pulled' = [w \in Workers |-> SelectSeq(pulled[w], LAMBDA x : x # m)]
  /\ ackLog' = [w \in Workers |-> SelectSeq(ackLog[w], LAMBDA x : x # m)]
  /\ UNCHANGED <<sup, pc, held, conn, ack_list, chunk, sent, resp, pos,
                 lastCall, lastErr, restarted, notSink>>

NextLive ==
  \/ Next
  \/ \E m \in Msgs : PublishAgain(m)

\* Every worker process is scheduled: a worker that can take a step of
\* flush_to_es takes one (a blocked get ends in a message or in Empty
\* after bulk_timeout seconds). Publishers and signals are under no
\* obligation.
SpecLive == Init /\ [][NextLive]_vars /\ \A w \in Workers : WF_vars(WorkerStep(w))

\* A backend whose bulk response carries fewer items than the request had
\* actions: streaming_bulk yields one pair per item of the response, so
\* the for loop of line 123 gets n results, n less than the chunk's length,
\* for the first n actions, and streaming_bulk goes on to draw the next
\* chunk.
BulkWriteShort(w) ==
  /\ pc[w] = "bulk"
  /\ chunk[w] # <<>>
  /\ \E n \in 0..(Len(chunk[w]) - 1) : \E r \in [1..n -> BOOLEAN] :
       /\ pc' = [pc EXCEPT ![w] = IF n = 0 THEN "get" ELSE "walk"]
       /\ lastCall' = [lastCall EXCEPT ![w] = Len(chunk[w])]
       /\ sent' = [sent EXCEPT ![w] = chunk[w]]
       /\ resp' = [resp EXCEPT ![w] = r]
       /\ pos' = [pos EXCEPT ![w] = 0]
       /\ chunk' = [chunk EXCEPT ![w] = <<>>]
       /\ reported' = [m \in Msgs |->
            IF \E k \in 1..n : chunk[w][k] = m
              THEN IF r[CHOOSE k \in 1..n : chunk[w][k] = m] THEN "ok" ELSE "fail"
              ELSE reported[m]]
  /\ UNCHANGED <<sup, ready, held, acked, conn, ack_list, pulled, ackLog,
                 lastErr, restarted, notSink>>

NextShort ==
  \/ NextLive
  \/ \E w \in Workers : BulkWriteShort(w)

SpecShort == Init /\ [][NextShort]_vars

\* A run in which nothing goes wrong: the backend reports success for
\* every action of every request, the broker and the backend connection
\* never fail, no signal is sent, and the only exception is the Empty of a
\* pull that times out.
BulkWriteOk(w) ==
  /\ BulkWrite(w)
  /\ \A k \in 1..Len(resp'[w]) : resp'[w][k]

QuietStep(w) ==
  \/ StartCycle(w)
  \/ OpenStream(w)
  \/ \E m \in Msgs : Pull(w, m)
  \/ PullTimeout(w)
  \/ BulkWriteOk(w)
  \/ AckStep(w)

NextQuiet ==
  \/ \E m \in Msgs : Publish(m)
  \/ Start
  \/ \E w \in Workers : QuietStep(w)

\* Every worker keeps running; the publishers may stop at any time.
SpecQuiet == Init /\ [][NextQuiet]_vars /\ \A w \in Workers : WF_vars(QuietStep(w))

\* -------------------------------------------------------- put_message

\* The caller hands message d to the task queue: put_message.delay(d).
Delay(t, d) ==
  /\ st[t] = "idle"
  /\ st' = [st EXCEPT ![t] = "queued"]
  /\ arg' = [arg EXCEPT ![t] = d]
  /\ UNCHANGED <<retries, es_queue, uuids, notPut>>

\* The subscripts of lines 42-43 find their keys (no KeyError).
HasKeys(d) == Keys \subseteq DOMAIN d

\* Mutant of Action: index and doc_type change places.
ActionSwapped(index, doc_type, document, id, ttl) ==
  [k \in {"_index", "_type", "_id", "_ttl", "_source"} |->
     CASE k = "_index" -> doc_type
       [] k = "_type" -> index
       [] k = "_id" -> id
       [] k = "_ttl" -> ttl
       [] k = "_source" -> document]

\* The dict of lines 69-75.
Action(index, doc_type, document, id, ttl) ==
  [k \in {"_index", "_type", "_id", "_ttl", "_source"} |->
     CASE k = "_index" -> index
       [] k = "_type" -> doc_type
       [] k = "_id" -> id
       [] k = "_ttl" -> ttl
       [] k = "_source" -> document]

\* Mutant of AfterExcept: the except clause logs and falls off the end of
\* put_message, which returns None.
AfterExceptReturn(n) == "returned"

\* Lines 45-47: the except clause logs and calls put_message.retry(), which
\* does not return: it schedules the task again and raises the retry
\* exception, or, with max_retries used up, raises without scheduling.
AfterExcept(n) == IF n < MAX_RETRIES THEN "retry" ELSE "failed"

\* One execution of put_message for task t, the first or a retried one.
\* The arguments of _queue_index_request are evaluated inside the try
\* (KeyError when a key is missing); _queue_index_request connects and
\* declares (lines 56-66), builds the action with a new uuid (lines 69-75)
\* and publishes it (lines 78-80); the broker may fail it before the
\* action is built or at the publish.
put_message(t) ==
  /\ st[t] \in {"queued", "retry"}
  /\ \E fault \in {"none", "connect", "publish"} :
       LET d == arg[t]
           built == HasKeys(d) /\ fault # "connect"
           published == built /\ fault = "none"
       IN /\ uuids' = IF built THEN uuids + 1 ELSE uuids
          /\ es_queue' = IF published
                           THEN Append(es_queue,
                                  Action(d["tenant"], d["pattern"], d, uuids + 1, TTL))
                           ELSE es_queue
          /\ st' = [st EXCEPT ![t] = IF published THEN "returned"
                                       ELSE AfterExcept(retries[t])]
          /\ retries' = [retries EXCEPT ![t] =
                           IF ~published /\ @ < MAX_RETRIES THEN @ + 1 ELSE @]
  /\ UNCHANGED <<arg, notPut>>

NextPut ==
  \/ \E t \in Tasks, d \in Docs : Delay(t, d)
  \/ \E t \in Tasks : put_message(t)

SpecPut == Init /\ [][NextPut]_vars

\* ------------------------------------------------------ watchlist flow

RECURSIVE SumOver(_, _)
SumOver(f, S) ==
  IF S = {} THEN 0
  ELSE LET i == CHOOSE j \in S : TRUE IN f[i] + SumOver(f, S \ {i})

\* Calls of process_watchlist_item begun so far.
Begun == SumOver(reports, WorkerIds) + Cardinality({c \in Callers : wpc[c] # "idle"})

Quiescent == \A c \in Callers : wpc[c] = "idle"

\* Time passes.
Tick ==
  /\ now < MaxTicks * TickSeconds
  /\ now' = now + TickSeconds
  /\ UNCHANGED <<watchlist, oids, status, bcast, reports, callVars, notWatch>>

\* The status resource of the coordinator ('/v1/worker/{worker_id}/status')
\* puts a worker that was offline back online.
SetOnline(i) ==
  /\ status[i] = "offline"
  /\ status' = [status EXCEPT ![i] = "online"]
  /\ UNCHANGED <<now, watchlist, oids, bcast, reports, callVars, notWatch>>

\* Request c enters process_watchlist_item(db, i).
CallWith(c, i, snapshot) ==
  /\ wpc[c] = "idle"
  /\ Begun < MaxCalls
  /\ wpc' = [wpc EXCEPT ![c] = "delete"]
  /\ wid' = [wid EXCEPT ![c] = i]
  /\ pre' = [pre EXCEPT ![c] = snapshot]
  /\ UNCHANGED <<watch_dict, dbVars, notWatch>>

Call(c, i) ==
  /\ i \in WorkerIds
  /\ CallWith(c, i, NoSnapshot)

\* {'last_changed': {'$lt': threshold}} of lines 62-65.
Expired(e, t) == e.last_changed < t - FAILURE_TOLERANCE_SECONDS

\* _delete_expired_watchlist_items (line 94).
DeleteExpired(c) ==
  /\ wpc[c] = "delete"
  /\ watchlist' = {e \in watchlist : ~Expired(e, now)}
  /\ wpc' = [wpc EXCEPT ![c] = "find"]
  /\ UNCHANGED <<now, oids, status, bcast, reports, wid, watch_dict, pre, notWatch>>

\* Mutant of AtThreshold: the comparison is off by one.
OverThreshold(n) == n > WATCHLIST_COUNT_THRESHOLD

\* The test of line 101.
AtThreshold(n) == n = WATCHLIST_COUNT_THRESHOLD

\* db.find_one (line 96) and the tests of lines 97 and 101 on what it
\* returned: one of the documents of the worker, if there is any.
FindOne(c) ==
  /\ wpc[c] = "find"
  /\ LET found == {e \in watchlist : e.worker_id = wid[c]}
     IN IF found = {}
          THEN /\ watch_dict' = [watch_dict EXCEPT ![c] = NoItem]
               /\ wpc' = [wpc EXCEPT ![c] = "add"]
          ELSE \E e \in found :
                 /\ watch_dict' = [watch_dict EXCEPT ![c] = e]
                 /\ wpc' = [wpc EXCEPT ![c] =
                              IF AtThreshold(e.watch_count) THEN "worker" ELSE "update"]
  /\ UNCHANGED <<dbVars, wid, pre, notWatch>>

\* _add_watchlist_item (line 98): db.put of a new WatchlistItem.
AddItem(c) ==
  /\ wpc[c] = "add"
  /\ oids' = oids + 1
  /\ watchlist' = watchlist \cup
       {[id |-> oids + 1, worker_id |-> wid[c],
         watch_count |-> NewWatchCount, last_changed |-> now]}
  /\ wpc' = [wpc EXCEPT ![c] = "done"]
  /\ UNCHANGED <<now, status, bcast, reports, wid, watch_dict, pre, notWatch>>

\* find_worker and the test of its status (lines 102-104).
FindWorker(c) ==
  /\ wpc[c] = "worker"
  /\ wpc' = [wpc EXCEPT ![c] =
               IF status[wid[c]] # "offline" THEN "offline" ELSE "update"]
  /\ UNCHANGED <<dbVars, wid, watch_dict, pre, notWatch>>

\* update_worker_status and broadcast_config_change (lines 105-106).
SetOffline(c) ==
  /\ wpc[c] = "offline"
  /\ status' = [status EXCEPT ![wid[c]] = "offline"]
  /\ bcast' = [bcast EXCEPT ![wid[c]] = @ + 1]
  /\ wpc' = [wpc EXCEPT ![c] = "update"]
  /\ UNCHANGED <<now, watchlist, oids, reports, wid, watch_dict, pre, notWatch>>

\* _update_watchlist_item (line 108): the document with the _id of
\* watch_dict is written with the count read plus one and the time of the
\* write.
UpdateItem(c) ==
  /\ wpc[c] = "update"
  /\ watchlist' = {e \in watchlist : e.id # watch_dict[c].id} \cup
       {[id |-> watch_dict[c].id, worker_id |-> watch_dict[c].worker_id,
         watch_count |-> watch_dict[c].watch_count + 1, last_changed |-> now]}
  /\ wpc' = [wpc EXCEPT ![c] = "done"]
  /\ UNCHANGED <<now, oids, status, bcast, reports, wid, watch_dict, pre, notWatch>>

\* process_watchlist_item returns.
Return(c) ==
  /\ wpc[c] = "done"
  /\ reports' = [reports EXCEPT ![wid[c]] = @ + 1]
  /\ wpc' = [wpc EXCEPT ![c] = "idle"]
  /\ wid' = [wid EXCEPT ![c] = 0]
  /\ watch_dict' = [watch_dict EXCEPT ![c] = NoItem]
  /\ pre' = [pre EXCEPT ![c] = NoSnapshot]
  /\ UNCHANGED <<now, watchlist, oids, status, bcast, notWatch>>

WatchStep(c) ==
  \/ DeleteExpired(c)
  \/ FindOne(c)
  \/ AddItem(c)
  \/ FindWorker(c)
  \/ SetOffline(c)
  \/ UpdateItem(c)
  \/ Return(c)

\* The coordinator serving its requests concurrently.
NextWatch ==
  \/ Tick
  \/ \E i \in WorkerIds : SetOnline(i)
  \/ \E c \in Callers, i \in WorkerIds : Call(c, i)
  \/ \E c \in Callers : WatchStep(c)

SpecWatch == Init /\ [][NextWatch]_vars

\* One call at a time, with nothing else happening during a call: what a
\* single call of process_watchlist_item does to the collections it found.
SoloTick == Quiescent /\ Tick

SoloSetOnline(i) == Quiescent /\ SetOnline(i)

SoloCall(c, i) ==
  /\ Quiescent
  /\ CallWith(c, i, [watchlist |-> watchlist, status |-> status, bcast |-> bcast])

NextSolo ==
  \/ SoloTick
  \/ \E i \in WorkerIds : SoloSetOnline(i)
  \/ \E c \in Callers, i \in WorkerIds : SoloCall(c, i)
  \/ \E c \in Callers : WatchStep(c)

SpecSolo == Init /\ [][NextSolo]_vars

LoopPcs == {"start", "connect", "get", "bulk", "walk"}

\* ------------------------------------------------------------- claims

Walking(w) == pc[w] = "walk" /\ pos[w] < Len(resp[w])

InSeq(m, s) == \E k \in 1..Len(s) : s[k] = m

Index(m, s) == CHOOSE k \in 1..Len(s) : s[k] = m

\* C1: a message is acknowledged only if the backend reported success for
\* the action built from that message: every acknowledged message has a
\* success reported for its delivery, and whenever a result is about to be
\* consumed, the head of the worker's ack_list is the message whose payload
\* is at that result's position in the bulk request.
C1_AckOnlyOwnSuccess ==
  /\ \A m \in acked : reported[m] = "ok"
  /\ \A w \in Workers :
       Walking(w) =>
         /\ ack_list[w] # <<>>
         /\ Head(ack_list[w]) = sent[w][pos[w] + 1]

\* C1's case: a worker that has been through an error restart is acking
\* in its new session, next to a message whose write failed.
C1_Witness ==
  \E w \in Workers, m \in Msgs :
    /\ ackLog[w] # <<>>
    /\ Walking(w)
    /\ reported[m] = "fail"
    /\ held[m] # NoWorker
    /\ restarted[w]

\* C2: of the results a worker has walked, the messages acknowledged are
\* exactly those whose result is a success, wherever the failures are.
C2_AckedExactlySuccesses ==
  \A w \in Workers : \A k \in 1..pos[w] :
    (sent[w][k] \in acked) <=> resp[w][k]

\* C2's case: a whole chunk walked, with a failure before a success in it.
C2_Witness ==
  \E w \in Workers :
    /\ pos[w] = BULK_SIZE
    /\ Len(sent[w]) = BULK_SIZE
    /\ ~resp[w][1]
    /\ resp[w][BULK_SIZE]
    /\ sent[w][BULK_SIZE] \in acked
    /\ held[sent[w][1]] = w

\* C3: within a worker's session, acks happen in the order of the pulls.
C3_AckOrderIsPullOrder ==
  \A w \in Workers : \A i, j \in 1..Len(ackLog[w]) :
    i < j =>
      /\ InSeq(ackLog[w][i], pulled[w])
      /\ InSeq(ackLog[w][j], pulled[w])
      /\ Index(ackLog[w][i], pulled[w]) < Index(ackLog[w][j], pulled[w])

\* C3's case: a worker has acknowledged two messages in one session.
C3_Witness == \E w \in Workers : Len(ackLog[w]) >= 2

\* C4 as stated: once a result of a chunk is a failure, neither that
\* message nor any later one of the chunk is acknowledged.
C4_FailureBlocksTheRest ==
  \A w \in Workers : \A j, k \in 1..pos[w] :
    (j <= k /\ ~resp[w][j]) => sent[w][k] \notin acked

\* C4 amended: the message at the failed position is left unacknowledged
\* on the worker's session, and a later entry of the chunk whose own result
\* is a success is acknowledged all the same.
C4_FailureBlocksOnlyItself ==
  \A w \in Workers : \A j \in 1..pos[w] :
    ~resp[w][j] =>
      /\ sent[w][j] \notin acked
      /\ held[sent[w][j]] = w
      /\ \A k \in (j + 1)..pos[w] : resp[w][k] => sent[w][k] \in acked

\* C4's case: a success walked after a failure of the same chunk.
C4_Witness ==
  \E w \in Workers : \E j, k \in 1..pos[w] :
    j < k /\ ~resp[w][j] /\ resp[w][k] /\ sent[w][k] \in acked

\* A message the backend reported failed, popped off the ack_list of the
\* worker that pulled it and still unacknowledged on that worker's session.
Dropped(m) ==
  /\ held[m] # NoWorker
  /\ reported[m] = "fail"
  /\ ~InSeq(m, ack_list[held[m]])

\* C5 as stated: a message whose write failed does not stay held for ever
\* on the session of the worker that dropped it: time and again the
\* session has let go of it, so that the broker can deliver it again.
C5_FailedIsRedelivered ==
  \A m \in Msgs : []<>(~Dropped(m))

\* C6 as stated: a pull that times out does not take the exception path
\* of flush_to_es (the path that gives up the connection, the ack_list and
\* the partial chunk).
C6_TimeoutIsNoError ==
  \A w \in Workers : lastErr[w] # "Empty"

\* C7: no exception ends a worker. A started worker is always inside the
\* loop of flush_to_es; an exception that is being logged has taken it to
\* the start of the next cycle; and the cycle that follows begins with an
\* empty ack_list and a queue stream that has not run (no connection, no
\* action drawn, no message held).
C7_ExceptionsRestartTheCycle ==
  \A w \in Workers :
    /\ sup # "created" => pc[w] \in LoopPcs
    /\ lastErr[w] # "none" => pc[w] = "start"
    /\ restarted[w] /\ pc[w] = "connect" =>
         /\ ack_list[w] = <<>>
         /\ ~conn[w]
         /\ chunk[w] = <<>>
         /\ HeldBy(w) = {}

\* C7's case: a worker that went through its except clause with entries
\* pending in its ack_list is past line 120 of a new cycle.
C7_Witness ==
  \E w \in Workers :
    /\ restarted[w]
    /\ pc[w] = "connect"
    /\ acked # {}
    /\ \E v \in Workers : v # w /\ lastErr[v] = "error" /\ ack_list[v] # <<>>

\* C8: no bulk request is empty: every request a worker's stream has made
\* carries at least one action, each the payload of a message pulled on
\* the worker's session.
C8_NoEmptySubmission ==
  \A w \in Workers :
    lastCall[w] # NoCall =>
      /\ lastCall[w] >= 1
      /\ Len(sent[w]) = lastCall[w]
      /\ \A k \in 1..Len(sent[w]) : InSeq(sent[w][k], pulled[w])

\* C8's case: a worker has submitted a bulk request, in a cycle that
\* followed an exception.
C8_Witness ==
  \E w \in Workers : lastCall[w] >= 1 /\ restarted[w]

\* C9 as stated: once the termination signal has been delivered to the
\* process running start, every worker eventually leaves its loop.
C9_SignalStopsEveryWorker ==
  (sup = "killed") ~> (\A w \in Workers : pc[w] \notin LoopPcs)

\* C11: start runs one flush_to_es loop per unit of concurrency, each on
\* its own session with its own ack_list. The entries of the ack_list of a
\* cycle under way are messages delivered, unacknowledged, on that worker's
\* current session; no message is in the ack_list of two cycles under way;
\* and every ack is made by the worker on whose session the message is
\* delivered, on the head of its own ack_list.
C11_OwnSessionOwnList ==
  /\ [](/\ sup # "created" =>
             Cardinality({w \in Workers : pc[w] \in LoopPcs}) = NumWorkers
        /\ \A w \in Workers : pc[w] # "start" =>
             \A k \in 1..Len(ack_list[w]) :
               /\ held[ack_list[w][k]] = w
               /\ InSeq(ack_list[w][k], pulled[w])
        /\ \A w, v \in Workers : (w # v /\ pc[w] # "start" /\ pc[v] # "start") =>
             \A k \in 1..Len(ack_list[w]) : ~InSeq(ack_list[w][k], ack_list[v]))
  /\ [][\A m \in Msgs : (m \in acked' /\ m \notin acked) =>
          /\ held[m] # NoWorker
          /\ ack_list[held[m]] # <<>>
          /\ Head(ack_list[held[m]]) = m
          /\ ack_list'[held[m]] = Tail(ack_list[held[m]])
          /\ InSeq(m, pulled[held[m]])]_vars

\* C11's case: two workers each with entries pending in its own ack_list,
\* one of them acking on a session opened after an error restart.
C11_Witness ==
  \E w, v \in Workers :
    /\ w # v
    /\ ack_list[w] # <<>>
    /\ ack_list[v] # <<>>
    /\ pc[w] = "walk"
    /\ pc[v] \in {"get", "walk"}
    /\ ackLog[w] # <<>>
    /\ restarted[w]

\* C12 as stated: a message lacking tenant or correlation.pattern is not
\* retried: put_message schedules no retry of its task, and no action of it
\* is enqueued.
C12_MalformedIsNotRetried ==
  \A t \in Tasks :
    (st[t] # "idle" /\ ~HasKeys(arg[t])) =>
      /\ st[t] # "retry"
      /\ retries[t] = 0
      /\ \A k \in 1..Len(es_queue) : es_queue[k]["_source"] # arg[t]

\* C13: put_message does not drop a message in silence. A task that has
\* returned has its message in the queue, and every execution of
\* put_message either appends the action of its message to the queue and
\* returns, or leaves the queue alone and ends in the exception raised by
\* put_message.retry (the retry scheduled, or max_retries exceeded).
C13_PublishedOrRaised ==
  /\ [](\A t \in Tasks : st[t] = "returned" =>
          \E k \in 1..Len(es_queue) : es_queue[k]["_source"] = arg[t])
  /\ [][\A t \in Tasks :
          (st[t] \in {"queued", "retry"}
             /\ <<st'[t], retries'[t]>> # <<st[t], retries[t]>>) =>
            \/ /\ st'[t] = "returned"
               /\ Len(es_queue') = Len(es_queue) + 1
               /\ SubSeq(es_queue', 1, Len(es_queue)) = es_queue
               /\ es_queue'[Len(es_queue')]["_source"] = arg[t]
            \/ /\ st'[t] = "retry"
               /\ retries'[t] = retries[t] + 1
               /\ es_queue' = es_queue
            \/ /\ st'[t] = "failed"
               /\ retries[t] = MAX_RETRIES
               /\ es_queue' = es_queue]_vars

\* C13's case: one task has published on a retried execution, after the
\* broker failed it, while another has used up its retries.
C13_Witness ==
  \E t, u \in Tasks :
    /\ st[t] = "returned"
    /\ retries[t] >= 1
    /\ st[u] = "failed"
    /\ HasKeys(arg[u])

\* C14: every action in the queue has exactly the fields _index, _type,
\* _id, _ttl and _source: _index is the tenant and _type the pattern of the
\* message, _ttl is TTL, _source is the message a task was given, as given,
\* and no two actions have the same _id.
C14_ActionOfMessage ==
  /\ \A k \in 1..Len(es_queue) :
       LET a == es_queue[k]
       IN /\ DOMAIN a = {"_index", "_type", "_id", "_ttl", "_source"}
          /\ HasKeys(a["_source"])
          /\ a["_index"] = a["_source"]["tenant"]
          /\ a["_type"] = a["_source"]["pattern"]
          /\ a["_ttl"] = TTL
          /\ \E t \in Tasks : st[t] = "returned" /\ arg[t] = a["_source"]
  /\ \A j, k \in 1..Len(es_queue) : j # k => es_queue[j]["_id"] # es_queue[k]["_id"]

\* C14's case: two actions published for messages of different tenants,
\* one of them after an attempt whose uuid was drawn and never published.
C14_Witness ==
  /\ Len(es_queue) = 2
  /\ es_queue[1]["_index"] # es_queue[2]["_index"]
  /\ uuids > 2

\* C15 as stated: when a bulk response has fewer results than the chunk had
\* actions, nothing is acknowledged on a guess: every message a worker has
\* acknowledged on its session has a success reported for it, and a result
\* is never consumed against an ack_list entry that is not of the chunk the
\* result belongs to.
C15_NoAckPastDivergence ==
  \A w \in Workers :
    /\ \A k \in 1..Len(ackLog[w]) : reported[ackLog[w][k]] = "ok"
    /\ (Walking(w) /\ ack_list[w] # <<>>) => InSeq(Head(ack_list[w]), sent[w])

\* C16 as stated: every bulk request of a worker started from
\* ElasticSearchStreamBulker(bulk_size=k) carries at most k actions.
C16_ChunkWithinBulkSize ==
  \A w \in Workers : lastCall[w] # NoCall => lastCall[w] <= bulk_size

\* C17 as stated: with a backend that reports success for every action and
\* workers that keep running, every message in the queue is eventually
\* written and acknowledged, however few messages are queued.
C17_EveryMessageIsAcked ==
  \A m \in Msgs : (m \in ready) ~> (m \in acked)

\* The documents of worker i in a watchlist.
ItemsOf(i, list) == {e \in list : e.worker_id = i}

\* C18: a call of process_watchlist_item(db, i) on its own. When it is
\* done, every document that was older than the failure tolerance is gone
\* and the documents of the other workers that were not are as they were;
\* if worker i had no document left, it has one new document and no status
\* and no broadcast has changed; if it had one, that document has its count
\* raised by exactly 1 and its last_changed set to the time of the call,
\* and worker i has been set offline and broadcast, once, exactly when
\* the count found equals the threshold and the worker was not offline.
C18_OneCallOfProcessWatchlistItem ==
  \A c \in Callers :
    wpc[c] = "done" =>
      LET i == wid[c]
          kept == {e \in pre[c].watchlist : ~Expired(e, now)}
          mine == ItemsOf(i, kept)
      IN /\ watchlist \ ItemsOf(i, watchlist) = kept \ mine
         /\ \A e \in watchlist : ~Expired(e, now)
         /\ \A j \in WorkerIds \ {i} :
              status[j] = pre[c].status[j] /\ bcast[j] = pre[c].bcast[j]
         /\ IF mine = {}
              THEN /\ \E e \in watchlist :
                        /\ ItemsOf(i, watchlist) = {e}
                        /\ e.last_changed = now
                        /\ \A o \in pre[c].watchlist : o.id # e.id
                   /\ status[i] = pre[c].status[i]
                   /\ bcast[i] = pre[c].bcast[i]
              ELSE \E e \in mine :
                     /\ mine = {e}
                     /\ ItemsOf(i, watchlist) =
                          {[e EXCEPT !.watch_count = e.watch_count + 1,
                                     !.last_changed = now]}
                     /\ IF e.watch_count = WATCHLIST_COUNT_THRESHOLD
                             /\ pre[c].status[i] # "offline"
                          THEN /\ status[i] = "offline"
                               /\ bcast[i] = pre[c].bcast[i] + 1
                          ELSE /\ status[i] = pre[c].status[i]
                               /\ bcast[i] = pre[c].bcast[i]

\* C18's case: a call that found an expired document of another worker and
\* its own worker's document at the threshold, last changed some time ago,
\* has deleted the one and set its worker offline.
C18_Witness ==
  \E c \in Callers :
    /\ wpc[c] = "done"
    /\ \E e \in pre[c].watchlist : e.worker_id # wid[c] /\ Expired(e, now)
    /\ \E e \in pre[c].watchlist :
         /\ e.worker_id = wid[c]
         /\ e.watch_count = WATCHLIST_COUNT_THRESHOLD
         /\ e.last_changed < now
    /\ pre[c].status[wid[c]] = "online"
    /\ status[wid[c]] = "offline"

\* C19 as stated: while nothing has expired, whatever the interleaving of
\* the calls, a worker has at most one document in the watchlist, and once
\* the calls have returned its watch_count is the number of reports
\* processed for the worker.
C19_OneItemCountingEveryReport ==
  now = 0 =>
    \A i \in WorkerIds :
      /\ Cardinality(ItemsOf(i, watchlist)) <= 1
      /\ Quiescent => \A e \in ItemsOf(i, watchlist) : e.watch_count = reports[i]

\* C20 as stated: a call that finds the worker's count at or above the
\* threshold and the worker not offline sets it offline and broadcasts,
\* and a call that finds the worker offline does not broadcast.
C20_OfflineAtOrAboveThreshold ==
  \A c \in Callers :
    wpc[c] = "done" =>
      LET i == wid[c]
      IN /\ \A e \in ItemsOf(i, pre[c].watchlist) :
              (/\ ~Expired(e, now)
               /\ e.watch_count >= WATCHLIST_COUNT_THRESHOLD
               /\ pre[c].status[i] # "offline") =>
                /\ status[i] = "offline"
                /\ bcast[i] = pre[c].bcast[i] + 1
         /\ pre[c].status[i] = "offline" => bcast[i] = pre[c].bcast[i]

====
